---- MODULE Spec2Model ----
(***************************************************************************)
(* Model of src/server.js: the Solution / Student / Teacher store, the     *)
(* create-solution and display handlers, the hourly expiry sweep and the   *)
(* answer-text extraction heuristics.                                      *)
(*                                                                         *)
(* Text is a sequence of tokens.  A token is one character ("sp" a blank,  *)
(* "nl" a line feed, "a", "b", "m", "x" letters) or one fixed word of the  *)
(* source written as a single token (the three labels, the topic keywords  *)
(* and the three sentinels); CharLen gives the number of characters a      *)
(* token stands for, so that String.length is computed as the code does.   *)
(***************************************************************************)
EXTENDS Integers, Sequences, FiniteSets, TLC

\* ------------------------------------------------------------------ bounds
MaxTime == 60        \* the clock stops advancing here
TickStep == 30       \* days the clock advances in one step
MaxViews == 2        \* views of one Solution the model follows
MaxLines == 3        \* lines of an answer text given to the extraction
MaxPage == 3         \* largest page number asked of the student search
MaxLimit == 2        \* largest page size asked of the student search

\* ------------------------------------------------------- program constants
TTL == 30            \* days from creation to expiry (solutionSchema.expiresAt)
MaxTopicLen == 50    \* topic.length > 50 is discarded
MaxNameLen == 30     \* studentName.length > 30 is discarded

\* ------------------------------------------------------------------- text
WS == {"sp", "nl"}

CharLen(tok) ==
  CASE tok = "LblStudent" -> 5     \* the four characters of the label and ':'
    [] tok \in {"LblSubject", "LblTopic"} -> 3
    [] tok = "kwTriangle" -> 3
    [] tok \in {"kwLinear", "kwQuadratic"} -> 4
    [] tok \in {"kwPythagoras", "kwRightAngle", "kwIntercept", "kwVertex",
                "kwCoord", "kwTranslate", "kwFigure", "kwProb", "kwStat",
                "plane", "wUnknown", "wAnonymous", "wMath"} -> 2
    [] tok = "kwParabola" -> 3
    [] tok = "run29" -> 29           \* a run of 29 letters
    [] tok = "run49" -> 49           \* a run of 49 letters
    [] OTHER -> 1

RECURSIVE StrLen(_)
StrLen(s) == IF s = <<>> THEN 0 ELSE CharLen(Head(s)) + StrLen(Tail(s))

\* String.prototype.trim
RECURSIVE TrimLeft(_)
TrimLeft(s) == IF s # <<>> /\ Head(s) \in WS THEN TrimLeft(Tail(s)) ELSE s

RECURSIVE TrimRight(_)
TrimRight(s) ==
  IF s # <<>> /\ s[Len(s)] \in WS THEN TrimRight(SubSeq(s, 1, Len(s) - 1)) ELSE s

Trim(s) == TrimRight(TrimLeft(s))

\* String.prototype.includes
Includes(s, pat) ==
  \E i \in 1..(Len(s) - Len(pat) + 1) : SubSeq(s, i, i + Len(pat) - 1) = pat

\* the sentinels and the topic names the heuristics produce
Unknown == <<"wUnknown">>
Anonymous == <<"wAnonymous">>
Math == <<"wMath">>
TopicTriangle == <<"kwTriangle">>
TopicLinear == <<"kwLinear">>
TopicQuadratic == <<"kwQuadratic">>
TopicCoord == <<"kwCoord", "plane">>
TopicProb == <<"kwProb", "kwStat">>

\* answer.match(/<label>\s*([^\n]+)/): the capture group of the leftmost match,
\* or <<>> with found = FALSE.  At an occurrence of the label at position i the
\* greedy \s* takes the whole blank run after it and gives characters back until
\* [^\n]+ can start, so the capture starts at the last position of
\* i+1 .. (end of run)+1 that holds a character other than a line feed, and
\* runs up to the next line feed.
RunEnd(s, i) ==
  LET stops == {j \in (i + 1)..Len(s) : s[j] \notin WS}
  IN  IF stops = {} THEN Len(s) + 1
      ELSE CHOOSE j \in stops : \A k \in stops : j <= k

CaptureStart(s, i) ==
  LET cands == {p \in (i + 1)..RunEnd(s, i) : p <= Len(s) /\ s[p] # "nl"}
  IN  IF cands = {} THEN 0
      ELSE CHOOSE p \in cands : \A q \in cands : q <= p

LineEnd(s, p) ==
  LET nls == {j \in p..Len(s) : s[j] = "nl"}
  IN  IF nls = {} THEN Len(s)
      ELSE (CHOOSE j \in nls : \A k \in nls : j <= k) - 1

Match(s, label) ==
  LET occ == {i \in 1..Len(s) : s[i] = label /\ CaptureStart(s, i) # 0}
  IN  IF occ = {} THEN [found |-> FALSE, group |-> <<>>]
      ELSE LET i == CHOOSE j \in occ : \A k \in occ : j <= k
               p == CaptureStart(s, i)
           IN  [found |-> TRUE, group |-> SubSeq(s, p, LineEnd(s, p))]

\* the keyword heuristics of extractStudentInfo (the if / else-if chain)
InferTopicReordered(answer) ==
  IF \/ Includes(answer, <<"kwTriangle">>)
     \/ Includes(answer, <<"kwPythagoras">>)
     \/ Includes(answer, <<"kwRightAngle">>) THEN TopicTriangle
  ELSE IF \/ Includes(answer, <<"kwQuadratic">>)
          \/ Includes(answer, <<"kwParabola">>)
          \/ Includes(answer, <<"kwVertex">>) THEN TopicQuadratic
  ELSE IF \/ Includes(answer, <<"kwLinear">>)
          \/ Includes(answer, <<"kwIntercept">>)
          \/ Includes(answer, <<"m", "x">>) THEN TopicLinear
  ELSE IF \/ Includes(answer, <<"kwCoord">>)
          \/ Includes(answer, <<"kwTranslate">>)
          \/ Includes(answer, <<"kwFigure">>) THEN TopicCoord
  ELSE IF \/ Includes(answer, <<"kwProb">>)
          \/ Includes(answer, <<"kwStat">>) THEN TopicProb
  ELSE Unknown

InferTopic(answer) ==
  IF \/ Includes(answer, <<"kwTriangle">>)
     \/ Includes(answer, <<"kwPythagoras">>)
     \/ Includes(answer, <<"kwRightAngle">>) THEN TopicTriangle
  ELSE IF \/ Includes(answer, <<"kwLinear">>)
          \/ Includes(answer, <<"kwIntercept">>)
          \/ Includes(answer, <<"m", "x">>) THEN TopicLinear
  ELSE IF \/ Includes(answer, <<"kwQuadratic">>)
          \/ Includes(answer, <<"kwParabola">>)
          \/ Includes(answer, <<"kwVertex">>) THEN TopicQuadratic
  ELSE IF \/ Includes(answer, <<"kwCoord">>)
          \/ Includes(answer, <<"kwTranslate">>)
          \/ Includes(answer, <<"kwFigure">>) THEN TopicCoord
  ELSE IF \/ Includes(answer, <<"kwProb">>)
          \/ Includes(answer, <<"kwStat">>) THEN TopicProb
  ELSE Unknown

extractStudentInfoInclusive(answer) ==
  LET studentMatch == Match(answer, "LblStudent")
      subjectMatch == Match(answer, "LblSubject")
      topicMatch == Match(answer, "LblTopic")
      topic0 == IF topicMatch.found THEN Trim(topicMatch.group) ELSE Unknown
      topic1 == IF topic0 # <<>> /\ StrLen(topic0) >= MaxTopicLen THEN Unknown ELSE topic0
      topic == IF topic1 = Unknown /\ answer # <<>> THEN InferTopic(answer) ELSE topic1
      name0 == IF studentMatch.found THEN Trim(studentMatch.group) ELSE Anonymous
      name == IF name0 # <<>> /\ StrLen(name0) >= MaxNameLen THEN Anonymous ELSE name0
  IN  [studentName |-> name,
       subject |-> IF subjectMatch.found THEN Trim(subjectMatch.group) ELSE Math,
       topic |-> topic]

extractStudentInfo(answer) ==
  LET studentMatch == Match(answer, "LblStudent")
      subjectMatch == Match(answer, "LblSubject")
      topicMatch == Match(answer, "LblTopic")
      topic0 == IF topicMatch.found THEN Trim(topicMatch.group) ELSE Unknown
      topic1 == IF topic0 # <<>> /\ StrLen(topic0) > MaxTopicLen THEN Unknown ELSE topic0
      topic == IF topic1 = Unknown /\ answer # <<>> THEN InferTopic(answer) ELSE topic1
      name0 == IF studentMatch.found THEN Trim(studentMatch.group) ELSE Anonymous
      name == IF name0 # <<>> /\ StrLen(name0) > MaxNameLen THEN Anonymous ELSE name0
  IN  [studentName |-> name,
       subject |-> IF subjectMatch.found THEN Trim(subjectMatch.group) ELSE Math,
       topic |-> topic]

\* ------------------------------------------------------------------ state
VARIABLES
  solutions,   \* the Solution collection: a set of documents
  students,    \* the Student collection
  teachers,    \* the Teacher collection
  now,         \* the clock (Date.now), in days
  API_KEY,     \* process.env.API_KEY, "" when not configured
  resp,        \* the last request handled (or sweep run) and its outcome
  req,         \* the request being answered, recorded by the input specification
  submitted,   \* per Solution id, the request body that created the stored document
  served,      \* per Solution id, the 200 responses of GET /display since creation
  boot,        \* startServer: its position, the store connection, the failures logged
  calls        \* the handler activations and sweep runs in flight, with their locals

vars == <<solutions, students, teachers, now, API_KEY, resp, req, submitted, served, boot, calls>>

\* ----------------------------------------------------------------- inputs
Ids == {"s1", "s2"}              \* values uuidv4() returns for a Solution
LineUserIds == {"L1"}
NoStudent == "none"              \* studentId not set

Undef == [def |-> FALSE, s |-> <<>>]
Str(t) == [def |-> TRUE, s |-> t]
Falsy(f) == ~f.def \/ f.s = <<>>     \* !value for undefined and ''

AnswerLabelled ==
  <<"LblSubject", "b", "nl", "LblTopic", "sp", "kwQuadratic", "nl", "kwTriangle">>
AnswerKeyword == <<"kwRightAngle", "nl">>
AnswerBlankName == <<"LblStudent", "sp">>

\* ------------------------------------------------------------------ store
\* Model.findOne: the stored document matching the filter, as a set of 0 or 1
FindSolution(id) == {s \in solutions : s.id = id}
FindStudent(sts, lineUserId) == {s \in sts : s.lineUserId = lineUserId}

\* mongoose's required validator: a required String must be non-empty
SolutionValid(doc) ==
  /\ doc.id # ""
  /\ doc.question # <<>>
  /\ doc.answer # <<>>
  /\ doc.studentName # <<>>
  /\ doc.subject # <<>>
  /\ doc.topic # <<>>

\* the unique index on Solution.id
SolutionIdAny(sols, id) == TRUE

SolutionIdFree(sols, id) == \A s \in sols : s.id # id

\* the unique indexes on Student.id and Student.lineUserId
StudentKeysAny(sts, doc) == TRUE

StudentKeysFree(sts, doc) ==
  \A s \in sts : s.id # doc.id /\ s.lineUserId # doc.lineUserId

\* new Solution({...}): the document with the schema defaults filled in
NewSolutionRaw(id, question, answer, info) ==
  [id |-> id, question |-> question, answer |-> answer,
   studentId |-> NoStudent, studentName |-> info.studentName,
   subject |-> info.subject, topic |-> info.topic,
   createdAt |-> now, expiresAt |-> now + TTL, viewCount |-> 0]

NewSolution(id, question, answer, info) ==
  [id |-> id, question |-> Trim(question), answer |-> Trim(answer),
   studentId |-> NoStudent, studentName |-> info.studentName,
   subject |-> info.subject, topic |-> info.topic,
   createdAt |-> now, expiresAt |-> now + TTL, viewCount |-> 0]

SeqHas(seq, x) == \E i \in 1..Len(seq) : seq[i] = x

\* createOrUpdateStudent: the Student collection after the call.  The date
\* fields of a Student (firstQuestionDate, lastQuestionDate, createdAt) are
\* written and never read, and are left out of the document.  fault = 2 is
\* a rejected findOne, fault = 3 a rejected save; both are caught and logged.
createOrUpdateStudent(sts, studentName, lineUserId, subject, topic, uuid, fault) ==
  IF fault = 2 THEN sts
  ELSE LET found == FindStudent(sts, lineUserId) IN
    IF found = {} THEN
      LET doc == [id |-> uuid, name |-> studentName, lineUserId |-> lineUserId,
                  totalQuestions |-> 1, subjects |-> <<subject>>,
                  topics |-> <<topic>>, isActive |-> TRUE]
      IN  IF fault = 3 \/ doc.name = <<>> \/ ~StudentKeysFree(sts, doc) THEN sts
          ELSE sts \cup {doc}
    ELSE
      LET student == CHOOSE s \in found : TRUE
          doc == [student EXCEPT
                    !.subjects = IF SeqHas(@, subject) THEN @ ELSE Append(@, subject),
                    !.topics = IF SeqHas(@, topic) THEN @ ELSE Append(@, topic),
                    !.totalQuestions = @ + 1]
      IN  IF fault = 3 THEN sts ELSE (sts \ {student}) \cup {doc}

\* createDefaultTeacher: the Teacher collection after startup
createDefaultTeacher(tchs, teacherLineId, uuid, fault) ==
  IF teacherLineId = "" \/ fault # 0 THEN tchs
  ELSE IF \E t \in tchs : t.lineUserId = teacherLineId THEN tchs
  ELSE tchs \cup {[id |-> uuid, name |-> "DefaultTeacherName", lineUserId |-> teacherLineId,
                   role |-> "admin",
                   permissions |-> <<"view_all", "manage_students", "view_dashboard">>,
                   createdAt |-> now, isActive |-> TRUE]}

\* validateApiKey: TRUE when the request goes on to the handler
validateApiKeyOptional(header, query) ==
  LET apiKey == IF header # "" THEN header ELSE query
  IN  API_KEY = "" \/ apiKey = "" \/ apiKey = API_KEY

validateApiKey(header, query) ==
  IF API_KEY = "" THEN TRUE
  ELSE LET apiKey == IF header # "" THEN header ELSE query
       IN  ~(apiKey = "" \/ apiKey # API_KEY)

\* what the last request was and how it was answered: the status, the id in a
\* create response, the document a display page shows, the lineUserId of an
\* accepted submission, and for a sweep run what it deleted, when it ran and
\* when the run right before it ran (-1 if the last request was no completed run)
Response(op, status, id, body, user) ==
  [op |-> op, status |-> status, id |-> id, body |-> body, user |-> user,
   deleted |-> 0, at |-> 0, prev |-> -1]

SweepResult(status, deleted) ==
  [op |-> "sweep", status |-> status, id |-> "", body |-> {}, user |-> "",
   deleted |-> deleted, at |-> IF status = 200 THEN now ELSE 0,
   prev |-> IF status = 200 /\ resp.op = "sweep" /\ resp.status = 200 THEN resp.at ELSE -1]

\* ---------------------------------------------------------------- actions
NoBody == {}
NoReq == [header |-> "", query |-> "", body |-> [question |-> Undef, answer |-> Undef, lineUserId |-> ""]]
Zero == [i \in Ids |-> 0]
Nothing == [i \in Ids |-> {}]

\* the requests and timer runs that can be in flight together; none is at first
Slots == {"c1", "c2"}
Idle == [op |-> "idle"]
NoCalls == [c \in Slots |-> Idle]

\* startServer has run to app.listen with the store connected
Listening == [pc |-> "listening", connected |-> TRUE, logged |-> {}]

\* the state after startServer: connectDB, createDefaultTeacher, listen
Init ==
  /\ solutions = {}
  /\ students = {}
  /\ now = 0
  /\ teachers = createDefaultTeacher({}, "T1", "t1", 0)
  /\ API_KEY = "k1"
  /\ resp = Response("start", 0, "", NoBody, "")
  /\ req = NoReq
  /\ boot = Listening
  /\ calls = NoCalls
  /\ submitted = Nothing
  /\ served = Zero

\* the answer of a create request that wrote nothing
CreateRejected(status) ==
  /\ resp' = Response("create", status, "", NoBody, "")
  /\ UNCHANGED <<solutions, students, submitted, served>>

\* the collections and the answer once the first solution.save() has resolved
CreateSaved(body, uuid, sols, sts, status) ==
  /\ solutions' = sols
  /\ students' = sts
  /\ submitted' = [submitted EXCEPT
                     ![uuid] = {[question |-> body.question.s, answer |-> body.answer.s]}]
  /\ served' = [served EXCEPT ![uuid] = 0]
  /\ resp' = IF status = 200
             THEN Response("create", 200, uuid, NoBody, body.lineUserId)
             ELSE Response("create", status, "", NoBody, "")

\* if (student) { solution.studentId = student.id; await solution.save() }
LinkStudent(body, uuid, fault, doc, sts, student) ==
  IF student = {} THEN CreateSaved(body, uuid, solutions \cup {doc}, sts, 200)
  ELSE IF fault = 5 THEN CreateSaved(body, uuid, solutions \cup {doc}, sts, 500)
  ELSE CreateSaved(body, uuid,
                   solutions \cup {[doc EXCEPT !.studentId = (CHOOSE s \in student : TRUE).id]},
                   sts, 200)

\* if (lineUserId) { await createOrUpdateStudent(...); Student.findOne(...) }
TrackStudent(body, uuid, fault, doc, sts) ==
  IF fault = 4 THEN CreateSaved(body, uuid, solutions \cup {doc}, sts, 500)
  ELSE LinkStudent(body, uuid, fault, doc, sts, FindStudent(sts, body.lineUserId))

\* new Solution({...}); await solution.save()
SaveSolution(body, uuid, suuid, fault, info, doc) ==
  IF fault = 1 \/ ~SolutionValid(doc) \/ ~SolutionIdFree(solutions, uuid)
    THEN CreateRejected(500)
  ELSE IF body.lineUserId = "" THEN CreateSaved(body, uuid, solutions \cup {doc}, students, 200)
  ELSE TrackStudent(body, uuid, fault, doc,
                    createOrUpdateStudent(students, info.studentName, body.lineUserId,
                                          info.subject, info.topic, suuid, fault))

BuildSolution(body, uuid, suuid, fault, info) ==
  SaveSolution(body, uuid, suuid, fault, info,
               NewSolution(uuid, body.question.s, body.answer.s, info))

\* POST /api/create-solution, validateApiKey included.  uuid and suuid are the
\* values uuidv4() returns for the Solution and for a new Student.  fault names
\* the store operation that rejects: 0 none, 1 solution.save(), 2 and 3 the
\* findOne and save inside createOrUpdateStudent, 4 Student.findOne, 5 the
\* second solution.save().
CreateSolution(header, query, body, uuid, suuid, fault) ==
  /\ IF ~validateApiKey(header, query) THEN CreateRejected(401)
     ELSE IF Falsy(body.question) \/ Falsy(body.answer) THEN CreateRejected(400)
     ELSE BuildSolution(body, uuid, suuid, fault, extractStudentInfo(body.answer.s))
  /\ UNCHANGED <<teachers, now, API_KEY>>

\* GET /display/:id.  fault: 0 none, 1 Solution.findOne, 2 solution.save().
GetSolutionUpsert(id, fault) ==
  LET found == FindSolution(id)
      solution == IF found = {} THEN NewSolution(id, <<"a">>, <<"a">>, extractStudentInfo(<<>>))
                  ELSE CHOOSE s \in found : TRUE
      viewed == [solution EXCEPT !.viewCount = @ + 1]
  IN
  /\ \A s \in found : s.viewCount < MaxViews
  /\ IF fault # 0 THEN
       /\ resp' = Response("display", 500, "", NoBody, "")
       /\ UNCHANGED <<solutions, served>>
     ELSE
       /\ solutions' = (solutions \ found) \cup {viewed}
       /\ served' = [served EXCEPT ![id] = @ + 1]
       /\ resp' = Response("display", IF found = {} THEN 404 ELSE 200, id, {viewed}, "")
  /\ UNCHANGED <<students, teachers, now, API_KEY, submitted>>

GetSolution(id, fault) ==
  LET found == FindSolution(id)
      solution == CHOOSE s \in found : TRUE
      viewed == [solution EXCEPT !.viewCount = @ + 1]
  IN
  /\ \A s \in found : s.viewCount < MaxViews
  /\ IF fault = 1 THEN
       /\ resp' = Response("display", 500, "", NoBody, "")
       /\ UNCHANGED <<solutions, served>>
     ELSE IF found = {} THEN
       /\ resp' = Response("display", 404, "", NoBody, "")
       /\ UNCHANGED <<solutions, served>>
     ELSE IF fault = 2 THEN
       /\ resp' = Response("display", 500, "", NoBody, "")
       /\ UNCHANGED <<solutions, served>>
     ELSE
       /\ solutions' = (solutions \ {solution}) \cup {viewed}
       /\ served' = [served EXCEPT ![id] = @ + 1]
       /\ resp' = Response("display", 200, id, {viewed}, "")
  /\ UNCHANGED <<students, teachers, now, API_KEY, submitted>>

\* the filter { expiresAt: { $lt: new Date() } }
ExpiredInclusive(sols, t) == {s \in sols : s.expiresAt <= t}

ExpiredGt(sols, t) == {s \in sols : s.expiresAt > t}

Expired(sols, t) == {s \in sols : s.expiresAt < t}

\* cleanupExpiredSolutions, run by setInterval.  fault = 1: deleteMany rejects.
cleanupOneExpired(fault) ==
  /\ IF fault = 1 THEN
       /\ resp' = SweepResult(500, 0)
       /\ UNCHANGED <<solutions, submitted, served>>
     ELSE
       LET all == Expired(solutions, now)
           gone == IF all = {} THEN {} ELSE {CHOOSE s \in all : TRUE}
       IN
       /\ solutions' = solutions \ gone
       /\ submitted' = [i \in Ids |-> IF \E s \in gone : s.id = i THEN {} ELSE submitted[i]]
       /\ served' = [i \in Ids |-> IF \E s \in gone : s.id = i THEN 0 ELSE served[i]]
       /\ resp' = SweepResult(200, Cardinality(gone))
  /\ UNCHANGED <<students, teachers, now, API_KEY>>

cleanupExpiredSolutions(fault) ==
  /\ IF fault = 1 THEN
       /\ resp' = SweepResult(500, 0)
       /\ UNCHANGED <<solutions, submitted, served>>
     ELSE
       LET gone == Expired(solutions, now) IN
       /\ solutions' = solutions \ gone
       /\ submitted' = [i \in Ids |-> IF \E s \in gone : s.id = i THEN {} ELSE submitted[i]]
       /\ served' = [i \in Ids |-> IF \E s \in gone : s.id = i THEN 0 ELSE served[i]]
       /\ resp' = SweepResult(200, Cardinality(gone))
  /\ UNCHANGED <<students, teachers, now, API_KEY>>

\* time passes
Tick ==
  /\ now + TickStep <= MaxTime
  /\ now' = now + TickStep
  /\ UNCHANGED <<solutions, students, teachers, API_KEY, resp, submitted, served>>

\* An input the handler does not read on the path taken is not enumerated.
Reaches(header, query, body) ==
  /\ validateApiKey(header, query)
  /\ ~Falsy(body.question)
  /\ ~Falsy(body.answer)
  /\ SolutionValid(NewSolution("s1", body.question.s, body.answer.s,
                               extractStudentInfo(body.answer.s)))

CreateFaults(header, query, body) ==
  IF ~Reaches(header, query, body) THEN {0}
  ELSE IF body.lineUserId = "" THEN 0..1 ELSE 0..5

CreateUuids(header, query, body) ==
  IF Reaches(header, query, body) THEN Ids ELSE {"s1"}

\* The requests of the lifecycle specification carry the configured key.
LifecycleBodies ==
  [question : {Str(<<"sp", "a">>)},
   answer : {Str(AnswerKeyword), Str(AnswerBlankName)},
   lineUserId : LineUserIds \cup {""}]

Create ==
  \E body \in LifecycleBodies :
    \E uuid \in CreateUuids("k1", "", body), suuid \in {"u1"},
       fault \in CreateFaults("k1", "", body) :
      CreateSolution("k1", "", body, uuid, suuid, fault)

Get == \E id \in Ids, fault \in 0..2 : GetSolution(id, fault)

Sweep == \E fault \in 0..1 : cleanupExpiredSolutions(fault)

Next ==
  \/ Create /\ UNCHANGED <<req, boot, calls>>
  \/ Get /\ UNCHANGED <<req, boot, calls>>
  \/ Sweep /\ UNCHANGED <<req, boot, calls>>
  \/ Tick /\ UNCHANGED <<req, boot, calls>>

Spec == Init /\ [][Next]_vars

\* the sweep timer keeps firing and the store eventually accepts the delete
SpecLive == Spec /\ WF_vars(cleanupExpiredSolutions(0) /\ UNCHANGED <<req, boot, calls>>)

\* The input specification: every key and body a client can send to
\* POST /api/create-solution, with and without a configured API_KEY.
InputBodies ==
  {body \in [question : {Undef, Str(<<>>), Str(<<"sp">>), Str(<<"sp", "a">>)},
             answer : {Undef, Str(<<"sp", "nl">>), Str(AnswerKeyword), Str(AnswerLabelled)},
             lineUserId : LineUserIds \cup {""}] :
     body.lineUserId # "" => ~Falsy(body.question) /\ ~Falsy(body.answer)}

\* req.headers['x-api-key'] || req.query.apiKey reads the query only when the
\* header is absent
QueryKeys(header) == IF header = "" THEN {"", "k1"} ELSE {""}

\* validateApiKey answers a refused request without reading its body: an
\* empty body and a complete one stand for the bodies of refused requests
RequestBodies(header, query) ==
  IF validateApiKey(header, query) THEN InputBodies
  ELSE {[question |-> Undef, answer |-> Undef, lineUserId |-> ""],
        [question |-> Str(<<"sp", "a">>), answer |-> Str(AnswerKeyword), lineUserId |-> "L1"]}

InitInputs ==
  /\ solutions = {}
  /\ students = {}
  /\ now = 0
  /\ teachers = createDefaultTeacher({}, "T1", "t1", 0)
  /\ API_KEY \in {"", "k1"}
  /\ resp = Response("start", 0, "", NoBody, "")
  /\ req = NoReq
  /\ boot = Listening
  /\ calls = NoCalls
  /\ submitted = Nothing
  /\ served = Zero

Submit ==
  \E header \in {"", "k1", "K1"} :      \* "" is an absent header
    \E query \in QueryKeys(header) :
    \E body \in RequestBodies(header, query) :
    \E uuid \in CreateUuids(header, query, body) :
      /\ CreateSolution(header, query, body, uuid, "u1", 0)
      /\ req' = [header |-> header, query |-> query, body |-> body]
      /\ UNCHANGED <<boot, calls>>

NextInputs == Submit

SpecInputs == InitInputs /\ [][NextInputs]_vars

\* --------------------------------------------------------- teacher routes
TeacherIds == {"T1", "T2", "T3"}     \* external identifiers of callers
TeacherUuids == {"t1", "t3"}         \* values uuidv4() returns for a Teacher

\* Teacher.findOne({ lineUserId: teacherId, isActive: true })
FindTeacherAny(tchs, teacherId) == {t \in tchs : t.lineUserId = teacherId}

FindActiveTeacher(tchs, teacherId) ==
  {t \in tchs : t.lineUserId = teacherId /\ t.isActive}

\* the unique indexes of teacherSchema (id, lineUserId)
TeacherKeysAny(tchs, doc) == TRUE

TeacherKeysFree(tchs, doc) ==
  \A t \in tchs : t.id # doc.id /\ t.lineUserId # doc.lineUserId

\* new Teacher({...}) of the auto-provisioning routes, schema defaults applied
NewTeacher(uuid, teacherId) ==
  [id |-> uuid, name |-> "Teacher", lineUserId |-> teacherId, role |-> "teacher",
   permissions |-> <<"view_dashboard", "view_students">>,
   createdAt |-> now, isActive |-> TRUE]

\* a Teacher record an operator has deactivated in the store
Deactivated == [NewTeacher("t2", "T2") EXCEPT !.isActive = FALSE, !.createdAt = 0]

\* the routes behind validateTeacherAuth, the routes that look the Teacher up
\* themselves and refuse, and the routes that find or create the Teacher
GatedRoutes == {"apiDashboard", "apiStudent"}
VerifyRoutes == {"apiTopicAnalysis", "apiStudentSearch"}
ProvisionRoutes ==
  {"dashboardToday", "topicAnalysisLink", "studentSearchLink", "dashboardLink",
   "studentSearchPage", "topicAnalysisPage"}

\* the page or link a route answers with
Page(route, teacherId) == [page |-> route, teacherId |-> teacherId]

\* validateTeacherAuth: the status it answers with, or 0 when it calls next().
\* fault = 1 is a rejected Teacher.findOne.
validateTeacherAuthAny(header, query, fault) ==
  LET teacherId == IF header # "" THEN header ELSE query
  IN  IF teacherId = "" THEN 401
      ELSE IF fault = 1 THEN 500
      ELSE IF FindTeacherAny(teachers, teacherId) = {} THEN 403
      ELSE 0

validateTeacherAuth(header, query, fault) ==
  LET teacherId == IF header # "" THEN header ELSE query
  IN  IF teacherId = "" THEN 401
      ELSE IF fault = 1 THEN 500
      ELSE IF FindActiveTeacher(teachers, teacherId) = {} THEN 403
      ELSE 0

\* GET /api/teacher/dashboard/:date and /api/teacher/student/:studentName/:date.
\* body is req.teacher as the handler receives it; fault = 2 is a rejected
\* Solution.find inside the handler.  The handlers write nothing.
TeacherApiAnswer(route, teacherId, gate, fault) ==
  /\ resp' = IF gate # 0 THEN Response(route, gate, teacherId, NoBody, "")
             ELSE Response(route, IF fault = 2 THEN 500 ELSE 200, teacherId,
                           FindActiveTeacher(teachers, teacherId), "")
  /\ UNCHANGED <<solutions, students, teachers, now, API_KEY, submitted, served>>

TeacherApi(route, header, query, fault) ==
  TeacherApiAnswer(route, IF header # "" THEN header ELSE query,
                   validateTeacherAuth(header, query, fault), fault)

\* GET /api/teacher/topic-analysis/:teacherId and the permission check of
\* GET /api/teacher/student-search/:teacherId: findOne, 403 when absent.
\* fault = 1 is a rejected Teacher.findOne, fault = 2 a rejected Solution.find.
VerifyOrCreateTeacher(route, teacherId, fault) ==
  /\ resp' = IF fault = 1 THEN Response(route, 500, teacherId, NoBody, "")
             ELSE IF fault = 2 THEN Response(route, 500, teacherId, NoBody, "")
             ELSE Response(route, 200, teacherId, {Page(route, teacherId)}, "")
  /\ teachers' = IF fault # 1 /\ FindTeacherAny(teachers, teacherId) = {}
                 THEN teachers \cup {NewTeacher("t3", teacherId)} ELSE teachers
  /\ UNCHANGED <<solutions, students, now, API_KEY, submitted, served>>

VerifyTeacher(route, teacherId, fault) ==
  /\ resp' = IF fault = 1 THEN Response(route, 500, teacherId, NoBody, "")
             ELSE IF FindActiveTeacher(teachers, teacherId) = {}
               THEN Response(route, 403, teacherId, NoBody, "")
             ELSE IF fault = 2 THEN Response(route, 500, teacherId, NoBody, "")
             ELSE Response(route, 200, teacherId, {Page(route, teacherId)}, "")
  /\ UNCHANGED <<solutions, students, teachers, now, API_KEY, submitted, served>>

\* the status a route answers a failed teacher.save() with
CreateFailureStatus(route) == IF route = "dashboardToday" THEN 403 ELSE 500

\* the six find-or-create routes.  fault = 1 is a rejected Teacher.findOne,
\* fault = 2 a rejected teacher.save(); a save also fails on a unique index.
ProvisionAnswer(route, teacherId, found, doc, fault) ==
  /\ IF fault = 1 THEN
       /\ resp' = Response(route, 500, teacherId, NoBody, "")
       /\ UNCHANGED teachers
     ELSE IF found # {} THEN
       /\ resp' = Response(route, 200, teacherId, {Page(route, teacherId)}, "")
       /\ UNCHANGED teachers
     ELSE IF fault = 2 \/ ~TeacherKeysFree(teachers, doc) THEN
       /\ resp' = Response(route, CreateFailureStatus(route), teacherId, NoBody, "")
       /\ UNCHANGED teachers
     ELSE
       /\ teachers' = teachers \cup {doc}
       /\ resp' = Response(route, 200, teacherId, {Page(route, teacherId)}, "")
  /\ UNCHANGED <<solutions, students, now, API_KEY, submitted, served>>

ProvisionVerifyOnly(route, teacherId, uuid, fault) == VerifyTeacher(route, teacherId, fault)

ProvisionTeacher(route, teacherId, uuid, fault) ==
  ProvisionAnswer(route, teacherId, FindActiveTeacher(teachers, teacherId),
                  NewTeacher(uuid, teacherId), fault)

\* the router: the handler of a route that takes :teacherId
TeacherRoute(route, teacherId, uuid, fault) ==
  IF route \in ProvisionRoutes THEN ProvisionTeacher(route, teacherId, uuid, fault)
  ELSE VerifyTeacher(route, teacherId, fault)

\* the store at startup: the bootstrap teacher when TEACHER_LINE_ID is set, and
\* possibly a deactivated record
InitTeachers ==
  /\ solutions = {}
  /\ students = {}
  /\ now = 0
  /\ \E teacherLineId \in {"", "T1"}, old \in {{}, {Deactivated}} :
       teachers = createDefaultTeacher(old, teacherLineId, "t1", 0)
  /\ API_KEY = "k1"
  /\ resp = Response("start", 0, "", NoBody, "")
  /\ req = NoReq
  /\ boot = Listening
  /\ calls = NoCalls
  /\ submitted = Nothing
  /\ served = Zero

QueryIds(header) == IF header = "" THEN TeacherIds \cup {""} ELSE {""}

GatedRequest ==
  \E route \in GatedRoutes, header \in TeacherIds \cup {""}, fault \in 0..2 :
    \E query \in QueryIds(header) :
      /\ TeacherApi(route, header, query, fault)
      /\ req' = [NoReq EXCEPT !.header = header, !.query = query]
      /\ UNCHANGED <<boot, calls>>

VerifyRequest ==
  \E route \in VerifyRoutes, teacherId \in TeacherIds, fault \in 0..2 :
    VerifyTeacher(route, teacherId, fault)

ProvisionRequest ==
  \E route \in ProvisionRoutes, teacherId \in TeacherIds, uuid \in TeacherUuids,
     fault \in 0..2 :
    ProvisionTeacher(route, teacherId, uuid, fault)

NextTeachers ==
  \/ GatedRequest
  \/ VerifyRequest /\ req' = NoReq /\ UNCHANGED <<boot, calls>>
  \/ ProvisionRequest /\ req' = NoReq /\ UNCHANGED <<boot, calls>>

SpecTeachers == InitTeachers /\ [][NextTeachers]_vars

\* ----------------------------------------------------------------- startup
\* the connection string connectDB picks: MONGODB_URI, DATABASE_URL, or the
\* in-memory server when neither is set
ConnectionConfigs == {"MONGODB_URI", "DATABASE_URL", "memory"}

\* connectDB: ok is whether mongoose.connect (or starting the in-memory
\* server) resolves; a rejection is caught and logged
connectDBExit(config, ok) ==
  /\ boot.pc = "connectDB"
  /\ boot' = IF ok THEN [pc |-> "createDefaultTeacher", connected |-> TRUE, logged |-> {}]
             ELSE [pc |-> "exited", connected |-> FALSE, logged |-> {"connectDB"}]
  /\ UNCHANGED <<solutions, students, teachers, now, API_KEY, resp, submitted, served>>

connectDB(config, ok) ==
  /\ boot.pc = "connectDB"
  /\ boot' = [pc |-> "createDefaultTeacher", connected |-> ok,
              logged |-> IF ok THEN {} ELSE {"connectDB"}]
  /\ UNCHANGED <<solutions, students, teachers, now, API_KEY, resp, submitted, served>>

\* the store operation that rejects: every one while the store is not
\* connected (the buffered command times out), else the one the input names
StoreFault(fault) == IF boot.connected THEN fault ELSE 1

\* await createDefaultTeacher() in startServer; a rejection is caught and logged
BootstrapTeacher(teacherLineId, uuid, fault) ==
  /\ boot.pc = "createDefaultTeacher"
  /\ teachers' = createDefaultTeacher(teachers, teacherLineId, uuid, StoreFault(fault))
  /\ boot' = [boot EXCEPT
                !.pc = "listen",
                !.logged = IF teacherLineId # "" /\ StoreFault(fault) # 0
                           THEN @ \cup {"createDefaultTeacher"} ELSE @]
  /\ UNCHANGED <<solutions, students, now, API_KEY, resp, submitted, served>>

\* app.listen(PORT, ...)
Listen ==
  /\ boot.pc = "listen"
  /\ boot' = [boot EXCEPT !.pc = "listening"]
  /\ UNCHANGED <<solutions, students, teachers, now, API_KEY, resp, submitted, served>>

\* a request to a find-or-create teacher route once the server listens
ServeTeacher ==
  /\ boot.pc = "listening"
  /\ \E route \in ProvisionRoutes, teacherId \in TeacherIds, uuid \in TeacherUuids,
        fault \in 0..2 :
       ProvisionTeacher(route, teacherId, uuid, StoreFault(fault))
  /\ UNCHANGED <<boot, calls>>

\* the process at the call of startServer(); the store may hold records of
\* earlier runs
InitStartup ==
  /\ solutions = {}
  /\ students = {}
  /\ now = 0
  /\ teachers \in {{}, {Deactivated}}
  /\ API_KEY = "k1"
  /\ resp = Response("start", 0, "", NoBody, "")
  /\ req = NoReq
  /\ submitted = Nothing
  /\ served = Zero
  /\ boot = [pc |-> "connectDB", connected |-> FALSE, logged |-> {}]
  /\ calls = NoCalls

Connect == \E config \in ConnectionConfigs, ok \in BOOLEAN : connectDB(config, ok)

Bootstrap ==
  \E teacherLineId \in {"", "T1"}, fault \in 0..2 :
    BootstrapTeacher(teacherLineId, "t1", fault)

StartServer == Connect \/ Bootstrap \/ Listen

NextStartup ==
  \/ Connect /\ UNCHANGED <<req, calls>>
  \/ Bootstrap /\ UNCHANGED <<req, calls>>
  \/ Listen /\ UNCHANGED <<req, calls>>
  \/ ServeTeacher /\ UNCHANGED req

\* every await of startServer settles: mongoose.connect and a buffered command
\* resolve or reject within their timeouts
SpecStartup ==
  InitStartup /\ [][NextStartup]_vars /\ WF_vars(StartServer /\ UNCHANGED <<req, calls>>)

\* ------------------------------------------------------------- extraction
\* the lines answers are made of: labelled lines with short, blank, sentinel
\* and threshold-length values, and lines with keywords of the five groups
AnswerLines ==
  {<<"LblStudent", "sp", "a">>,
   <<"LblStudent", "run29", "a", "sp">>,
   <<"LblStudent", "sp", "run29", "a", "a">>,
   <<"LblStudent", "sp">>,
   <<"LblSubject", "b", "sp", "kwTriangle">>,
   <<"LblTopic", "sp", "kwQuadratic">>,
   <<"LblTopic", "run49", "a">>,
   <<"LblTopic", "run49", "a", "a">>,
   <<"LblTopic", "wUnknown">>,
   <<"LblTopic">>,
   <<"kwVertex", "sp", "kwIntercept">>,
   <<"kwStat", "kwFigure">>,
   <<"kwProb">>,
   <<"a", "m", "sp", "x">>}

RECURSIVE JoinLines(_)
JoinLines(lines) ==
  IF lines = <<>> THEN <<>>
  ELSE IF Len(lines) = 1 THEN lines[1]
  ELSE lines[1] \o <<"nl">> \o JoinLines(Tail(lines))

ExtractInputs ==
  {JoinLines(lines) : lines \in UNION {[1..n -> AnswerLines] : n \in 0..MaxLines}}

\* a caller holding an answer text
InitExtract ==
  /\ solutions = {}
  /\ students = {}
  /\ now = 0
  /\ teachers = {}
  /\ API_KEY = "k1"
  /\ resp = Response("start", 0, "", NoBody, "")
  /\ \E answer \in ExtractInputs : req = [NoReq EXCEPT !.body.answer = Str(answer)]
  /\ submitted = Nothing
  /\ served = Zero
  /\ boot = Listening
  /\ calls = NoCalls

\* const { studentName, subject, topic } = extractStudentInfo(answer)
Extract ==
  /\ resp.op = "start"
  /\ resp' = Response("extract", 200, "", {extractStudentInfo(req.body.answer.s)}, "")
  /\ UNCHANGED <<solutions, students, teachers, now, API_KEY, req, submitted, served, boot, calls>>

SpecExtract == InitExtract /\ [][Extract]_vars

\* --------------------------------------------------------- student search
\* GET /api/teacher/student-search/:teacherId?studentName=&dateRange=&page=&limit=
\* page, limit and dateRange are the values parseInt returns for the query
\* parameters.
All == <<"a", "l", "l">>

\* the query: createdAt within the last dateRange days and, for a search term
\* other than 'all', the term occurring in the answer or the question
SearchQuery(studentName, dateRange) ==
  {s \in solutions :
     /\ s.createdAt >= now - dateRange
     /\ s.createdAt <= now
     /\ \/ Falsy(studentName)
        \/ studentName.s = All
        \/ Includes(s.answer, studentName.s)
        \/ Includes(s.question, studentName.s)}

\* .sort({ createdAt: -1 }): the orders the store may return the documents in
SortedByCreatedAt(docs) ==
  {q \in [1..Cardinality(docs) -> docs] :
     \A i, j \in 1..Cardinality(docs) :
       i < j => q[i] # q[j] /\ q[i].createdAt >= q[j].createdAt}

\* .skip(skip).limit(limit); a limit of 0 is no limit
SkipLimit(sorted, skip, limit) ==
  LET last == IF limit = 0 \/ skip + limit > Len(sorted) THEN Len(sorted) ELSE skip + limit
  IN  IF skip >= Len(sorted) THEN <<>> ELSE SubSeq(sorted, skip + 1, last)

\* Math.ceil(totalCount / limit); -1 stands for the null JSON gives Infinity and NaN
Ceil(total, limit) ==
  IF limit = 0 THEN -1 ELSE (total + limit - 1) \div limit

\* (x / y).toFixed(1), in tenths
Tenths(x, y) == (2 * 10 * x + y) \div (2 * y)

FinalStudentName(solution) ==
  LET extractedName == extractStudentInfo(solution.answer).studentName
  IN  IF extractedName = Anonymous THEN <<"wAnonymous", "wStudent">> ELSE extractedName

\* Set.add / a first assignment to an object key: insertion order is kept
AddOnce(seq, x) == IF SeqHas(seq, x) THEN seq ELSE Append(seq, x)

RECURSIVE Distinct(_)
Distinct(seq) ==
  IF seq = <<>> THEN <<>>
  ELSE AddOnce(Distinct(SubSeq(seq, 1, Len(seq) - 1)), seq[Len(seq)])

RECURSIVE Flatten(_)
Flatten(seqs) == IF seqs = <<>> THEN <<>> ELSE Head(seqs) \o Flatten(Tail(seqs))

\* Array.prototype.sort((a, b) => keys[b] - keys[a]): stable, descending
RECURSIVE InsertDesc(_, _)
InsertDesc(sorted, pair) ==
  IF sorted = <<>> THEN <<pair>>
  ELSE IF Head(sorted)[1] >= pair[1] THEN <<Head(sorted)>> \o InsertDesc(Tail(sorted), pair)
  ELSE <<pair>> \o sorted

RECURSIVE SortPairs(_)
SortPairs(pairs) ==
  IF pairs = <<>> THEN <<>>
  ELSE InsertDesc(SortPairs(SubSeq(pairs, 1, Len(pairs) - 1)), pairs[Len(pairs)])

SortDesc(seq, keys) ==
  LET sorted == SortPairs([i \in 1..Len(seq) |-> <<keys[i], seq[i]>>])
  IN  [i \in 1..Len(seq) |-> sorted[i][2]]

Question(solution) ==
  [id |-> solution.id, question |-> solution.question,
   topic |-> extractStudentInfo(solution.answer).topic, time |-> solution.createdAt]

\* studentData[finalStudentName] after the forEach, formatted
FormatStudent(name, questions, topics, lastActive) ==
  [name |-> name, totalQuestions |-> Len(questions), topics |-> topics,
   topicCount |-> Len(topics), questions |-> questions, lastActive |-> lastActive]

Questions(mine) == [i \in 1..Len(mine) |-> Question(mine[i])]

Topics(questions) == Distinct([i \in 1..Len(questions) |-> questions[i].topic])

StudentData(name, mine) ==
  FormatStudent(name, Questions(mine), Topics(Questions(mine)), mine[1].createdAt)

StudentGroup(found, name) ==
  StudentData(name, SelectSeq(found, LAMBDA s : FinalStudentName(s) = name))

SortStudents(groups) ==
  SortDesc(groups, [i \in 1..Len(groups) |-> groups[i].totalQuestions])

StudentNames(found) == Distinct([i \in 1..Len(found) |-> FinalStudentName(found[i])])

StudentGroups(found, names) == [i \in 1..Len(names) |-> StudentGroup(found, names[i])]

StudentList(found) == SortStudents(StudentGroups(found, StudentNames(found)))

\* topicStats[topic] summed over the students
TopicCount(studentList, topic) ==
  Cardinality(UNION {{<<i, j>> : j \in {k \in 1..Len(studentList[i].questions) :
                                          studentList[i].questions[k].topic = topic}} :
                     i \in 1..Len(studentList)})

TopicStat(studentList, name, count, total) ==
  [name |-> name, count |-> count, percentage |-> Tenths(100 * count, total)]

TopicStats(studentList, names, total) ==
  [i \in 1..Len(names) |->
     TopicStat(studentList, names[i], TopicCount(studentList, names[i]), total)]

SortTopics(stats) == SortDesc(stats, [i \in 1..Len(stats) |-> stats[i].count])

TopicNames(studentList) ==
  Distinct(Flatten([i \in 1..Len(studentList) |-> studentList[i].topics]))

TopicList(found, studentList) ==
  SortTopics(TopicStats(studentList, TopicNames(studentList), Len(found)))

Summary(found, studentList) ==
  [totalStudents |-> Len(studentList),
   totalQuestions |-> Len(found),
   avgQuestionsPerStudent |->
     IF Len(studentList) > 0 THEN Tenths(Len(found), Len(studentList)) ELSE 0]

Pagination(page, limit, totalCount) ==
  [page |-> page, limit |-> limit, total |-> totalCount, pages |-> Ceil(totalCount, limit)]

\* res.json({...}) of the student search
Json(studentName, dateRange, page, limit, found, totalCount, studentList) ==
  [dateRange |-> dateRange,
   searchTerm |-> IF Falsy(studentName) THEN All ELSE studentName.s,
   pagination |-> Pagination(page, limit, totalCount),
   summary |-> Summary(found, studentList),
   students |-> studentList,
   topics |-> TopicList(found, studentList)]

SearchPayload(studentName, dateRange, page, limit, found, totalCount) ==
  Json(studentName, dateRange, page, limit, found, totalCount, StudentList(found))

\* the whole handler; fault is the store operation that rejects:
\* 1 Teacher.findOne, 2 Solution.find, 3 Solution.countDocuments
StudentSearch(teacherId, studentName, dateRange, page, limit, sorted, fault) ==
  LET skip == (page - 1) * limit
      found == SkipLimit(sorted, skip, limit)
      totalCount == Cardinality(SearchQuery(studentName, dateRange))
  IN  /\ sorted \in SortedByCreatedAt(SearchQuery(studentName, dateRange))
      /\ resp' =
           IF fault = 1 THEN Response("studentSearch", 500, teacherId, NoBody, "")
           ELSE IF FindActiveTeacher(teachers, teacherId) = {}
             THEN Response("studentSearch", 403, teacherId, NoBody, "")
           ELSE IF skip < 0 \/ fault \in {2, 3}
             THEN Response("studentSearch", 500, teacherId, NoBody, "")
           ELSE Response("studentSearch", 200, teacherId,
                         {SearchPayload(studentName, dateRange, page, limit, found, totalCount)}, "")
      /\ UNCHANGED <<solutions, students, teachers, now, API_KEY, submitted, served>>

\* the query strings sent; a refused or failing request carries the defaults
\* of the search page
SearchRequests ==
  [teacherId : {"T1"}, studentName : {Undef, Str(All), Str(<<"kwRightAngle">>)},
   dateRange : {7, 30},
   page : 0..MaxPage, limit : 0..MaxLimit, fault : {0}]
  \cup [teacherId : {"T1", "T2"}, studentName : {Undef}, dateRange : {7},
        page : {1}, limit : {MaxLimit}, fault : 0..3]

\* the Solution a create at time createdAt stored
Stored(id, answer, createdAt) ==
  [NewSolution(id, <<"sp", "a">>, answer, extractStudentInfo(answer))
     EXCEPT !.createdAt = createdAt, !.expiresAt = createdAt + TTL]

LastClock == CHOOSE t \in 0..MaxTime : t % TickStep = 0 /\ t + TickStep > MaxTime

\* the stores searched: up to three Solutions, created at clock values up to now
SearchStores ==
  {a \cup b \cup c :
     a \in {{}} \cup {{Stored("s1", AnswerKeyword, t)} : t \in {u \in 0..MaxTime : u % TickStep = 0}},
     b \in {{}} \cup {{Stored("s2", AnswerLabelled, t)} : t \in {u \in 0..MaxTime : u % TickStep = 0}},
     c \in {{}, {Stored("s3", AnswerKeyword, LastClock)}}}

InitSearch ==
  /\ now = LastClock
  /\ solutions \in SearchStores
  /\ students = {}
  /\ teachers = createDefaultTeacher({}, "T1", "t1", 0)
  /\ API_KEY = "k1"
  /\ resp = Response("start", 0, "", NoBody, "")
  /\ req = NoReq
  /\ boot = Listening
  /\ calls = NoCalls
  /\ submitted = Nothing
  /\ served = Zero

Search ==
  \E r \in SearchRequests :
    \E sorted \in SortedByCreatedAt(SearchQuery(r.studentName, r.dateRange)) :
      /\ StudentSearch(r.teacherId, r.studentName, r.dateRange, r.page, r.limit, sorted, r.fault)
      /\ req' = r
      /\ UNCHANGED <<boot, calls>>

SpecSearch == InitSearch /\ [][Search]_vars

\* -------------------------------------------------------- overlapping calls
\* Every await of a handler is a point where another request or a timer run
\* is served; one action is the code between two awaits, ending with the
\* store operation awaited.
\*
\* cleanupExpiredSolutions run by the store: deleteMany takes its filter date
\* when it is called and deletes the matching documents one at a time.
\* fault = 1: the deleteMany rejects, at whatever point it has reached.
SweepPending(c) == Expired(solutions, calls[c].cutoff)

SweepBegin(c, fault) ==
  /\ calls[c] = Idle
  /\ calls' = [calls EXCEPT ![c] = [op |-> "sweep", cutoff |-> now,
                                    deletedCount |-> 0, fault |-> fault]]
  /\ UNCHANGED <<solutions, students, teachers, now, API_KEY, resp, submitted, served>>

SweepDeleteAny(c, doc) ==
  /\ calls[c].op = "sweep"
  /\ doc \in solutions
  /\ solutions' = solutions \ {doc}
  /\ submitted' = [submitted EXCEPT ![doc.id] = {}]
  /\ served' = [served EXCEPT ![doc.id] = 0]
  /\ calls' = [calls EXCEPT ![c].deletedCount = @ + 1]
  /\ UNCHANGED <<students, teachers, now, API_KEY, resp>>

SweepDelete(c, doc) ==
  /\ calls[c].op = "sweep"
  /\ doc \in SweepPending(c)
  /\ solutions' = solutions \ {doc}
  /\ submitted' = [submitted EXCEPT ![doc.id] = {}]
  /\ served' = [served EXCEPT ![doc.id] = 0]
  /\ calls' = [calls EXCEPT ![c].deletedCount = @ + 1]
  /\ UNCHANGED <<students, teachers, now, API_KEY, resp>>

SweepEnd(c) ==
  /\ calls[c].op = "sweep"
  /\ \/ /\ calls[c].fault = 1
        /\ resp' = SweepResult(500, 0)
     \/ /\ calls[c].fault = 0
        /\ SweepPending(c) = {}
        /\ resp' = SweepResult(200, calls[c].deletedCount)
  /\ calls' = [calls EXCEPT ![c] = Idle]
  /\ UNCHANGED <<solutions, students, teachers, now, API_KEY, submitted, served>>

\* a submission without lineUserId, accepted
Record ==
  \E uuid \in Ids :
    CreateSolution("k1", "",
                   [question |-> Str(<<"sp", "a">>), answer |-> Str(AnswerKeyword),
                    lineUserId |-> ""],
                   uuid, "u1", 0)

NextSweeps ==
  \/ Record /\ UNCHANGED <<req, boot, calls>>
  \/ Tick /\ UNCHANGED <<req, boot, calls>>
  \/ (\E c \in Slots, fault \in 0..1 : SweepBegin(c, fault)) /\ UNCHANGED <<req, boot>>
  \/ (\E c \in Slots, doc \in solutions : SweepDelete(c, doc)) /\ UNCHANGED <<req, boot>>
  \/ (\E c \in Slots : SweepEnd(c)) /\ UNCHANGED <<req, boot>>

SpecSweeps == Init /\ [][NextSweeps]_vars

\* POST /api/create-solution, one action per await.  ok = FALSE: the store
\* operation awaited rejects.
\*
\* validateApiKey, the checks, extractStudentInfo and the first solution.save()
CreateBegin(c, header, query, body, uuid, suuid, ok) ==
  /\ calls[c] = Idle
  /\ IF ~validateApiKey(header, query) THEN CreateRejected(401) /\ UNCHANGED calls
     ELSE IF Falsy(body.question) \/ Falsy(body.answer) THEN CreateRejected(400) /\ UNCHANGED calls
     ELSE IF \/ ~ok
             \/ ~SolutionValid(NewSolution(uuid, body.question.s, body.answer.s,
                                           extractStudentInfo(body.answer.s)))
             \/ ~SolutionIdFree(solutions, uuid)
       THEN CreateRejected(500) /\ UNCHANGED calls
     ELSE IF body.lineUserId = ""
       THEN /\ CreateSaved(body, uuid,
                           solutions \cup {NewSolution(uuid, body.question.s, body.answer.s,
                                                       extractStudentInfo(body.answer.s))},
                           students, 200)
            /\ UNCHANGED calls
     ELSE /\ solutions' = solutions \cup {NewSolution(uuid, body.question.s, body.answer.s,
                                                      extractStudentInfo(body.answer.s))}
          /\ submitted' = [submitted EXCEPT
                             ![uuid] = {[question |-> body.question.s, answer |-> body.answer.s]}]
          /\ served' = [served EXCEPT ![uuid] = 0]
          /\ calls' = [calls EXCEPT ![c] =
                         [op |-> "create", pc |-> "findOne", lineUserId |-> body.lineUserId,
                          solutionId |-> uuid, info |-> extractStudentInfo(body.answer.s),
                          suuid |-> suuid, student |-> {}]]
          /\ UNCHANGED <<students, resp>>
  /\ UNCHANGED <<teachers, now, API_KEY>>

\* createOrUpdateStudent: let student = await Student.findOne({ lineUserId })
\* a rejection is caught inside createOrUpdateStudent, which returns null
StudentFindOne(c, ok) ==
  /\ calls[c].op = "create" /\ calls[c].pc = "findOne"
  /\ calls' = [calls EXCEPT ![c].pc = IF ok THEN "save" ELSE "findAgain",
                            ![c].student = IF ok THEN FindStudent(students, calls[c].lineUserId)
                                           ELSE {}]
  /\ UNCHANGED <<solutions, students, teachers, now, API_KEY, resp, submitted, served>>

\* the document student.save() sends for a Student read earlier: totalQuestions
\* is set to the value computed from the document read, a subject or topic the
\* document read did not hold is pushed
StudentUpdateInc(stored, read, info) ==
  [stored EXCEPT
     !.subjects = IF SeqHas(@, info.subject) THEN @ ELSE Append(@, info.subject),
     !.topics = IF SeqHas(@, info.topic) THEN @ ELSE Append(@, info.topic),
     !.totalQuestions = @ + 1]

StudentUpdate(stored, read, info) ==
  [stored EXCEPT
     !.subjects = IF SeqHas(read.subjects, info.subject) THEN @ ELSE Append(@, info.subject),
     !.topics = IF SeqHas(read.topics, info.topic) THEN @ ELSE Append(@, info.topic),
     !.totalQuestions = read.totalQuestions + 1]

StudentInsert(call) ==
  [id |-> call.suuid, name |-> call.info.studentName, lineUserId |-> call.lineUserId,
   totalQuestions |-> 1, subjects |-> <<call.info.subject>>,
   topics |-> <<call.info.topic>>, isActive |-> TRUE]

\* createOrUpdateStudent: await student.save(); a rejection is caught
StudentSave(c, ok) ==
  /\ calls[c].op = "create" /\ calls[c].pc = "save"
  /\ students' =
       IF ~ok THEN students
       ELSE IF calls[c].student = {}
         THEN IF StudentInsert(calls[c]).name # <<>> /\ StudentKeysFree(students, StudentInsert(calls[c]))
              THEN students \cup {StudentInsert(calls[c])} ELSE students
       ELSE {IF s.id \in {r.id : r \in calls[c].student}
             THEN StudentUpdate(s, CHOOSE r \in calls[c].student : TRUE, calls[c].info)
             ELSE s : s \in students}
  /\ calls' = [calls EXCEPT ![c].pc = "findAgain"]
  /\ UNCHANGED <<solutions, teachers, now, API_KEY, resp, submitted, served>>

\* const student = await Student.findOne({ lineUserId }); without a Student
\* the handler answers right away
StudentFindAgain(c, ok) ==
  /\ calls[c].op = "create" /\ calls[c].pc = "findAgain"
  /\ IF ~ok
       THEN /\ resp' = Response("create", 500, "", NoBody, "")
            /\ calls' = [calls EXCEPT ![c] = Idle]
     ELSE IF FindStudent(students, calls[c].lineUserId) = {}
       THEN /\ resp' = Response("create", 200, calls[c].solutionId, NoBody, calls[c].lineUserId)
            /\ calls' = [calls EXCEPT ![c] = Idle]
     ELSE /\ calls' = [calls EXCEPT ![c].pc = "link",
                                    ![c].student = FindStudent(students, calls[c].lineUserId)]
          /\ UNCHANGED resp
  /\ UNCHANGED <<solutions, students, teachers, now, API_KEY, submitted, served>>

\* solution.studentId = student.id; await solution.save(); res.json(...)
\* the save updates the stored document and inserts none
SolutionLink(c, ok) ==
  /\ calls[c].op = "create" /\ calls[c].pc = "link"
  /\ solutions' =
       IF ~ok THEN solutions
       ELSE {IF s.id = calls[c].solutionId
             THEN [s EXCEPT !.studentId = (CHOOSE r \in calls[c].student : TRUE).id]
             ELSE s : s \in solutions}
  /\ resp' = IF ok
             THEN Response("create", 200, calls[c].solutionId, NoBody, calls[c].lineUserId)
             ELSE Response("create", 500, "", NoBody, "")
  /\ calls' = [calls EXCEPT ![c] = Idle]
  /\ UNCHANGED <<students, teachers, now, API_KEY, submitted, served>>

\* the find-or-create routes, one action per await
\*
\* let teacher = await Teacher.findOne({ lineUserId: teacherId, isActive: true })
\* and, with a Teacher found, the answer
TeacherFindOne(c, route, teacherId, uuid, ok) ==
  /\ calls[c] = Idle
  /\ IF ~ok
       THEN /\ resp' = Response(route, 500, teacherId, NoBody, "")
            /\ UNCHANGED calls
     ELSE IF FindActiveTeacher(teachers, teacherId) # {}
       THEN /\ resp' = Response(route, 200, teacherId, {Page(route, teacherId)}, "")
            /\ UNCHANGED calls
     ELSE /\ calls' = [calls EXCEPT ![c] =
                         [op |-> "provision", pc |-> "save", route |-> route,
                          teacher |-> NewTeacher(uuid, teacherId),
                          known |-> FindTeacherAny(teachers, teacherId) # {}]]
          /\ UNCHANGED resp
  /\ UNCHANGED <<solutions, students, teachers, now, API_KEY, submitted, served>>

\* await teacher.save() and the answer
TeacherSave(c, ok) ==
  /\ calls[c].op = "provision" /\ calls[c].pc = "save"
  /\ IF ok /\ TeacherKeysFree(teachers, calls[c].teacher)
       THEN /\ teachers' = teachers \cup {calls[c].teacher}
            /\ resp' = Response(calls[c].route, 200, calls[c].teacher.lineUserId,
                                {Page(calls[c].route, calls[c].teacher.lineUserId)}, "")
     ELSE /\ resp' = Response(calls[c].route, CreateFailureStatus(calls[c].route),
                              calls[c].teacher.lineUserId, NoBody, "")
          /\ UNCHANGED teachers
  /\ calls' = [calls EXCEPT ![c] = Idle]
  /\ UNCHANGED <<solutions, students, now, API_KEY, submitted, served>>

\* the Student an earlier submission of L1 left (its Solution since swept)
KnownStudent ==
  [id |-> "u0", name |-> Anonymous, lineUserId |-> "L1", totalQuestions |-> 1,
   subjects |-> <<Math>>, topics |-> <<TopicTriangle>>, isActive |-> TRUE]

\* submissions of L1
RaceBodies ==
  [question : {Str(<<"sp", "a">>)},
   answer : {Str(AnswerKeyword), Str(AnswerLabelled)},
   lineUserId : {"L1"}]

InitRaces ==
  /\ solutions = {}
  /\ students \in {{}, {KnownStudent}}
  /\ now = 0
  /\ teachers \in {createDefaultTeacher({}, "T1", "t1", 0),
                   createDefaultTeacher({Deactivated}, "T1", "t1", 0)}
  /\ API_KEY = "k1"
  /\ resp = Response("start", 0, "", NoBody, "")
  /\ req = NoReq
  /\ boot = Listening
  /\ calls = NoCalls
  /\ submitted = Nothing
  /\ served = Zero

\* Overlapping submissions of one lineUserId.  uuidv4() returns a value of its
\* own to each call.
NextCreates ==
  \/ (\E c \in Slots, body \in RaceBodies, uuid \in Ids, ok \in BOOLEAN :
        CreateBegin(c, "k1", "", body, uuid, IF c = "c1" THEN "u1" ELSE "u2", ok))
       /\ UNCHANGED <<req, boot>>
  \/ (\E c \in Slots, ok \in BOOLEAN : StudentFindOne(c, ok)) /\ UNCHANGED <<req, boot>>
  \/ (\E c \in Slots, ok \in BOOLEAN : StudentSave(c, ok)) /\ UNCHANGED <<req, boot>>
  \/ (\E c \in Slots, ok \in BOOLEAN : StudentFindAgain(c, ok)) /\ UNCHANGED <<req, boot>>
  \/ (\E c \in Slots, ok \in BOOLEAN : SolutionLink(c, ok)) /\ UNCHANGED <<req, boot>>

SpecCreates == InitRaces /\ [][NextCreates]_vars

\* submissions and find-or-create requests together, the store accepting
\* every operation but a save that breaks a unique index
NextRaces ==
  \/ (\E c \in Slots, body \in RaceBodies, uuid \in Ids :
        CreateBegin(c, "k1", "", body, uuid, IF c = "c1" THEN "u1" ELSE "u2", TRUE))
       /\ UNCHANGED <<req, boot>>
  \/ (\E c \in Slots : StudentFindOne(c, TRUE)) /\ UNCHANGED <<req, boot>>
  \/ (\E c \in Slots : StudentSave(c, TRUE)) /\ UNCHANGED <<req, boot>>
  \/ (\E c \in Slots : StudentFindAgain(c, TRUE)) /\ UNCHANGED <<req, boot>>
  \/ (\E c \in Slots : SolutionLink(c, TRUE)) /\ UNCHANGED <<req, boot>>
  \/ (\E c \in Slots, teacherId \in TeacherIds :
        TeacherFindOne(c, "dashboardLink", teacherId, IF c = "c1" THEN "t3" ELSE "t4", TRUE))
       /\ UNCHANGED <<req, boot>>
  \/ (\E c \in Slots : TeacherSave(c, TRUE)) /\ UNCHANGED <<req, boot>>

SpecRaces == InitRaces /\ [][NextRaces]_vars

\* GET /display/:id, one action per await
\*
\* const solution = await Solution.findOne({ id }) and the 404 answer
DisplayFindOne(c, id, ok) ==
  /\ calls[c] = Idle
  /\ \A s \in FindSolution(id) : s.viewCount < MaxViews
  /\ IF ~ok
       THEN /\ resp' = Response("display", 500, "", NoBody, "")
            /\ UNCHANGED calls
     ELSE IF FindSolution(id) = {}
       THEN /\ resp' = Response("display", 404, "", NoBody, "")
            /\ UNCHANGED calls
     ELSE /\ calls' = [calls EXCEPT ![c] =
                         [op |-> "display", pc |-> "save",
                          solution |-> CHOOSE s \in FindSolution(id) : TRUE]]
          /\ UNCHANGED resp
  /\ UNCHANGED <<solutions, students, teachers, now, API_KEY, submitted, served>>

\* the document as the store holds it now: the one read, by _id
StoredNow(read) == {s \in solutions : s.id = read.id /\ s.createdAt = read.createdAt}

\* solution.viewCount += 1; await solution.save(); res.send(html).  The save
\* sets viewCount, computed from the document read, on the stored document.
\* When the document is gone the save changes nothing; whether it then
\* rejects depends on the mongoose release (strict).
DisplaySaveUpsert(c, ok, strict) ==
  /\ calls[c].op = "display" /\ calls[c].pc = "save"
  /\ IF ~ok
       THEN /\ resp' = Response("display", 500, "", NoBody, "")
            /\ UNCHANGED <<solutions, served>>
     ELSE /\ solutions' = (solutions \ StoredNow(calls[c].solution))
                            \cup {[calls[c].solution EXCEPT !.viewCount = @ + 1]}
          /\ served' = [served EXCEPT ![calls[c].solution.id] = @ + 1]
          /\ resp' = Response("display", 200, calls[c].solution.id,
                              {[calls[c].solution EXCEPT !.viewCount = @ + 1]}, "")
  /\ calls' = [calls EXCEPT ![c] = Idle]
  /\ UNCHANGED <<students, teachers, now, API_KEY, submitted>>

DisplaySave(c, ok, strict) ==
  /\ calls[c].op = "display" /\ calls[c].pc = "save"
  /\ IF ~ok
       THEN /\ resp' = Response("display", 500, "", NoBody, "")
            /\ UNCHANGED <<solutions, served>>
     ELSE IF StoredNow(calls[c].solution) = {}
       THEN /\ resp' = IF strict
                       THEN Response("display", 500, calls[c].solution.id, NoBody, "")
                       ELSE Response("display", 200, calls[c].solution.id,
                                     {[calls[c].solution EXCEPT !.viewCount = @ + 1]}, "")
            /\ UNCHANGED <<solutions, served>>
     ELSE /\ solutions' = {IF s \in StoredNow(calls[c].solution)
                           THEN [s EXCEPT !.viewCount = calls[c].solution.viewCount + 1]
                           ELSE s : s \in solutions}
          /\ served' = [served EXCEPT ![calls[c].solution.id] = @ + 1]
          /\ resp' = Response("display", 200, calls[c].solution.id,
                              {[calls[c].solution EXCEPT !.viewCount = @ + 1]}, "")
  /\ calls' = [calls EXCEPT ![c] = Idle]
  /\ UNCHANGED <<students, teachers, now, API_KEY, submitted>>

\* overlapping page views, with submissions, the clock and the sweep
NextViews ==
  \/ Record /\ UNCHANGED <<req, boot, calls>>
  \/ Tick /\ UNCHANGED <<req, boot, calls>>
  \/ cleanupExpiredSolutions(0) /\ UNCHANGED <<req, boot, calls>>
  \/ (\E c \in Slots, id \in Ids, ok \in BOOLEAN : DisplayFindOne(c, id, ok))
       /\ UNCHANGED <<req, boot>>
  \/ (\E c \in Slots, ok \in BOOLEAN, strict \in BOOLEAN : DisplaySave(c, ok, strict))
       /\ UNCHANGED <<req, boot>>

SpecViews == Init /\ [][NextViews]_vars

\* ------------------------------------------------------- analytics routes
\* the four JSON routes of the teacher analytics, over a store with records
InitAnalytics ==
  /\ now = LastClock
  /\ solutions \in SearchStores
  /\ students = {KnownStudent}
  /\ teachers = createDefaultTeacher({Deactivated}, "T1", "t1", 0)
  /\ API_KEY = "k1"
  /\ resp = Response("start", 0, "", NoBody, "")
  /\ req = NoReq
  /\ boot = Listening
  /\ calls = NoCalls
  /\ submitted = Nothing
  /\ served = Zero

\* the gated routes, topic-analysis, and searches for the first page
NextAnalytics ==
  \/ GatedRequest
  \/ \E teacherId \in TeacherIds, fault \in 0..2 :
       /\ VerifyTeacher("apiTopicAnalysis", teacherId, fault)
       /\ req' = NoReq
       /\ UNCHANGED <<boot, calls>>
  \/ \E r \in {q \in SearchRequests : q.page = 1 /\ q.limit = MaxLimit} :
       \E sorted \in SortedByCreatedAt(SearchQuery(r.studentName, r.dateRange)) :
         /\ StudentSearch(r.teacherId, r.studentName, r.dateRange, r.page, r.limit, sorted, r.fault)
         /\ req' = r
         /\ UNCHANGED <<boot, calls>>

SpecAnalytics == InitAnalytics /\ [][NextAnalytics]_vars

\* ----------------------------------------------------------------- claims
SeqToSet(seq) == {seq[i] : i \in 1..Len(seq)}
ClockValues == {t \in 0..MaxTime : t % TickStep = 0}

\* C1: after a create that stored a Solution under id i, every GET /display/i
\* the store answers while the document is stored responds 200, shows question
\* and answer equal to the trimmed submitted values and raises the stored
\* viewCount by exactly 1; the stored viewCount is 0 right after creation and
\* always equals the number of pages served since.
C1_RoundTrip ==
  /\ [](\A s \in solutions :
          /\ submitted[s.id] # {}
          /\ \A b \in submitted[s.id] :
               s.question = Trim(b.question) /\ s.answer = Trim(b.answer)
          /\ s.viewCount = served[s.id])
  /\ [](resp.op = "create" /\ resp.status = 200 =>
          \E s \in solutions : s.id = resp.id /\ s.viewCount = 0)
  /\ [](resp.op = "display" /\ resp.status = 200 =>
          \A d \in resp.body :
            /\ d \in solutions
            /\ \A b \in submitted[d.id] :
                 d.question = Trim(b.question) /\ d.answer = Trim(b.answer))
  /\ [][\A id \in Ids :
          (GetSolution(id, 0) /\ FindSolution(id) # {}) =>
            /\ resp'.status = 200
            /\ \A s \in FindSolution(id) :
                 /\ resp'.body = {[s EXCEPT !.viewCount = s.viewCount + 1]}
                 /\ solutions' = (solutions \ {s}) \cup resp'.body]_vars

C1_Witness ==
  /\ resp.op = "display"
  /\ resp.status = 200
  /\ \E d \in resp.body :
       /\ d.viewCount = 2
       /\ d \in solutions
       /\ \E b \in submitted[d.id] : b.answer # d.answer /\ b.question # d.question

\* C2: a GET /display/:id of a stored Solution whose expiresAt has passed is
\* answered 404 and does not change the stored document.
C2_ExpiredNeverServed ==
  [][\A id \in Ids :
       (GetSolution(id, 0) /\ \E s \in FindSolution(id) : s.expiresAt < now) =>
         resp'.status = 404 /\ solutions' = solutions]_vars

\* C3: a GET /display/:id for an id no stored Solution has is answered 404
\* (whenever the lookup itself is answered) and changes no Solution, Student or
\* Teacher document.
C3_UnknownIdNotFound ==
  [][\A id \in Ids, fault \in 0..2 :
       (GetSolution(id, fault) /\ FindSolution(id) = {}) =>
         /\ fault # 1 => resp'.status = 404
         /\ UNCHANGED <<solutions, students, teachers>>]_vars

C3_Witness ==
  /\ resp.op = "display"
  /\ resp.status = 404
  /\ Cardinality(solutions) = 1
  /\ students # {}
  /\ teachers # {}

\* C4: a create request that passes the key check and whose question or answer
\* is missing or empty after trimming is answered 400 and writes no Solution
\* and no Student.
EmptyAfterTrim(f) == ~f.def \/ Trim(f.s) = <<>>

C4_EmptyInputRejected ==
  /\ [](/\ resp.op = "create"
        /\ validateApiKey(req.header, req.query)
        /\ EmptyAfterTrim(req.body.question) \/ EmptyAfterTrim(req.body.answer)
        => resp.status = 400)
  /\ [][(/\ resp'.op = "create"
         /\ validateApiKey(req'.header, req'.query)
         /\ EmptyAfterTrim(req'.body.question) \/ EmptyAfterTrim(req'.body.answer))
        => UNCHANGED <<solutions, students>>]_vars

\* C5: with API_KEY configured, a create request whose key (the header, or the
\* query parameter when the header is absent) is absent or differs from API_KEY
\* is answered 401 and writes nothing, whatever its body; with no API_KEY
\* configured no request is answered 401.
SuppliedKey(r) == IF r.header # "" THEN r.header ELSE r.query

C5_SharedSecret ==
  /\ [](resp.op = "create" =>
          IF API_KEY # "" /\ SuppliedKey(req) # API_KEY
          THEN resp.status = 401
          ELSE API_KEY = "" => resp.status \in {200, 400, 500})
  /\ [][(resp'.op = "create" /\ API_KEY # "" /\ SuppliedKey(req') # API_KEY)
        => UNCHANGED <<solutions, students, teachers>>]_vars

C5_Witness ==
  /\ API_KEY = "k1"
  /\ resp.status = 401
  /\ req.header = "K1"
  /\ req.query = ""
  /\ ~Falsy(req.body.question)
  /\ ~Falsy(req.body.answer)
  /\ solutions # {}

\* C6: a sweep run the store answers deletes exactly the Solutions whose
\* expiresAt is earlier than the time of the run; every other Solution stays,
\* unmodified, and no Student or Teacher changes.
C6_SweepDeletesExactlyExpired ==
  [][cleanupExpiredSolutions(0) =>
       /\ \A s \in solutions :
            /\ s.expiresAt < now => \A t \in solutions' : t.id # s.id
            /\ ~(s.expiresAt < now) => s \in solutions'
       /\ solutions' \subseteq solutions
       /\ UNCHANGED <<students, teachers>>]_vars

C6_Witness ==
  /\ resp.op = "sweep"
  /\ resp.status = 200
  /\ resp.deleted = 1
  /\ resp.at = now
  /\ \E s \in solutions : s.expiresAt = now
  /\ students # {}

\* C7: a sweep run that comes right after a completed sweep run, with no
\* Solution having crossed its expiresAt between the two runs, deletes 0
\* documents and leaves the store as the first run left it.
C7_SweepIdempotent ==
  [][(/\ resp.op = "sweep"
      /\ resp.status = 200
      /\ cleanupExpiredSolutions(0)
      /\ \A s \in solutions : ~(resp.at <= s.expiresAt /\ s.expiresAt < now))
     => /\ resp'.deleted = 0
        /\ UNCHANGED <<solutions, students, teachers>>]_vars

C7_Witness ==
  /\ resp.op = "sweep"
  /\ resp.status = 200
  /\ resp.prev >= 0
  /\ resp.prev < resp.at
  /\ resp.deleted = 0
  /\ solutions # {}

\* C8: with the sweep timer firing for ever and the store eventually accepting
\* the delete, every Solution whose expiresAt has passed is eventually gone;
\* a sweep run the store rejects changes nothing.
C8_ExpiredEventuallyDeleted ==
  /\ \A i \in Ids, t \in ClockValues :
       (\E s \in solutions : s.id = i /\ s.createdAt = t /\ s.expiresAt < now)
         ~> ~(\E s \in solutions : s.id = i /\ s.createdAt = t)
  /\ [][cleanupExpiredSolutions(1) => UNCHANGED <<solutions, students, teachers>>]_vars

C8_Witness ==
  /\ resp.op = "sweep"
  /\ resp.status = 200
  /\ resp.deleted = 2
  /\ resp.prev = -1
  /\ solutions = {}

\* C9: every create request that carries a lineUserId and is answered success
\* leaves exactly one Student for that lineUserId, with totalQuestions one more
\* than before (1 if there was none) and topics and subjects equal to the
\* previous ones plus the extracted topic and subject, without duplicates; so
\* after n such requests totalQuestions = n.
C9_StudentTracksSubmissions ==
  [][(/\ resp'.op = "create"
      /\ resp'.status = 200
      /\ resp'.user # ""
      /\ solutions' # solutions)
     => LET before == FindStudent(students, resp'.user)
            after == FindStudent(students', resp'.user)
            doc == CHOOSE s \in solutions' : s.id = resp'.id
        IN  /\ Cardinality(after) = 1
            /\ \A a \in after :
                 /\ before = {} =>
                      /\ a.totalQuestions = 1
                      /\ a.topics = <<doc.topic>>
                      /\ a.subjects = <<doc.subject>>
                 /\ \A b \in before :
                      /\ a.totalQuestions = b.totalQuestions + 1
                      /\ SeqToSet(a.topics) = SeqToSet(b.topics) \cup {doc.topic}
                      /\ SeqToSet(a.subjects) = SeqToSet(b.subjects) \cup {doc.subject}
                 /\ Len(a.topics) = Cardinality(SeqToSet(a.topics))
                 /\ Len(a.subjects) = Cardinality(SeqToSet(a.subjects))]_vars

\* C10: no two stored Solutions share an id, and every stored Solution has
\* expiresAt = createdAt + 30 days > createdAt and viewCount >= 0.
C10_SolutionInvariant ==
  \A s \in solutions :
    /\ \A t \in solutions : t.id = s.id => t = s
    /\ s.expiresAt > s.createdAt
    /\ s.expiresAt = s.createdAt + TTL
    /\ s.viewCount >= 0

C10_Witness ==
  /\ Cardinality(solutions) = 2
  /\ \E s \in solutions : s.viewCount > 0
  /\ \E s, t \in solutions : s.createdAt # t.createdAt

\* C11: validateTeacherAuth hands a request to the handler of a gated route
\* only when an active Teacher with the supplied identifier (the header, else
\* the query parameter) exists, and the handler then receives that Teacher; a
\* request with no identifier is answered 401 and one whose identifier has no
\* active Teacher 403 (when the lookup is answered), in both cases without the
\* handler running; no gated request changes the Teacher collection.
C11_TeacherGate ==
  [][resp'.op \in GatedRoutes =>
       \A fault \in 0..2 :
         TeacherApi(resp'.op, req'.header, req'.query, fault) =>
           LET teacherId == IF req'.header # "" THEN req'.header ELSE req'.query
               active == {t \in teachers : t.lineUserId = teacherId /\ t.isActive}
           IN  /\ teacherId = "" => resp'.status = 401 /\ resp'.body = {}
               /\ (teacherId # "" /\ active = {} /\ fault # 1) =>
                    resp'.status = 403 /\ resp'.body = {}
               /\ resp'.body # {} => active # {} /\ resp'.body = active
               /\ resp'.status = 200 => resp'.body # {}
               /\ active # {} /\ fault = 0 => resp'.status = 200
               /\ teachers' = teachers]_vars

C11_Witness ==
  /\ resp.op = "apiStudent"
  /\ resp.status = 403
  /\ resp.id = "T2"
  /\ req.header = ""
  /\ req.query = "T2"
  /\ Deactivated \in teachers
  /\ \E t \in teachers : t.isActive

\* a request by teacherId, answered by the store, that found no Teacher record
\* for it and drew an unused uuid
FirstSight(route, teacherId, uuid) ==
  /\ TeacherRoute(route, teacherId, uuid, 0)
  /\ \A t \in teachers : t.lineUserId # teacherId /\ t.id # uuid

\* exactly one Teacher was added, for teacherId, with the default role and
\* permissions of an auto-created record
Provisioned(teacherId) ==
  \E t \in teachers' :
    /\ t \notin teachers
    /\ teachers' = teachers \cup {t}
    /\ t.lineUserId = teacherId
    /\ t.role = "teacher"
    /\ t.isActive
    /\ t.permissions = <<"view_dashboard", "view_students">>

\* C12 as claimed: the first request by an identifier with no Teacher record to
\* a student-search or dashboard route creates one Teacher (role teacher,
\* active, default permissions) and succeeds; the topic-analysis API answers
\* such a request with a failure and creates no Teacher.
C12_ProvisionOnSearchAndDashboard ==
  [][\A uuid \in TeacherUuids :
       /\ (/\ resp'.op \in {"dashboardToday", "dashboardLink", "studentSearchPage",
                            "studentSearchLink", "apiStudentSearch"}
           /\ FirstSight(resp'.op, resp'.id, uuid))
          => resp'.status = 200 /\ Provisioned(resp'.id)
       /\ (resp'.op = "apiTopicAnalysis" /\ FirstSight(resp'.op, resp'.id, uuid))
          => resp'.status = 403 /\ teachers' = teachers]_vars

\* C12 amended: the first request by an identifier with no Teacher record to a
\* page or link route (dashboard, student search, topic analysis) creates one
\* Teacher (role teacher, active, default permissions) and succeeds; the JSON
\* API routes for topic analysis and student search answer such a request 403
\* and create no Teacher.
C12_ProvisionOnPagesAndLinks ==
  [][\A uuid \in TeacherUuids :
       /\ (/\ resp'.op \in {"dashboardToday", "dashboardLink", "studentSearchPage",
                            "studentSearchLink", "topicAnalysisPage",
                            "topicAnalysisLink"}
           /\ FirstSight(resp'.op, resp'.id, uuid))
          => /\ resp'.status = 200
             /\ Provisioned(resp'.id)
             /\ resp'.body = {Page(resp'.op, resp'.id)}
       /\ (/\ resp'.op \in {"apiTopicAnalysis", "apiStudentSearch"}
           /\ FirstSight(resp'.op, resp'.id, uuid))
          => resp'.status = 403 /\ resp'.body = {} /\ teachers' = teachers]_vars

C12_Witness ==
  /\ resp.op = "studentSearchPage"
  /\ resp.status = 200
  /\ resp.id = "T3"
  /\ \E t \in teachers : t.lineUserId = "T3" /\ t.id = "t3" /\ t.role = "teacher"
  /\ Deactivated \in teachers
  /\ \E t \in teachers : t.role = "admin"

\* C13: on every auto-provisioning route, a request whose Teacher creation
\* fails (the save is rejected by the store or by a unique index) is answered
\* 500, serves no page or link and adds no Teacher.
C13_CreationFailureIsInternalError ==
  [][\A uuid \in TeacherUuids, fault \in {0, 2} :
       (/\ resp'.op \in {"dashboardToday", "dashboardLink", "studentSearchPage",
                         "studentSearchLink", "topicAnalysisPage", "topicAnalysisLink"}
        /\ ProvisionTeacher(resp'.op, resp'.id, uuid, fault)
        /\ \A t \in teachers : ~(t.lineUserId = resp'.id /\ t.isActive)
        /\ \/ fault = 2
           \/ \E t \in teachers : t.lineUserId = resp'.id \/ t.id = uuid)
       => resp'.status = 500 /\ resp'.body = {} /\ teachers' = teachers]_vars

\* C14: a create request answered success has persisted the Solution and, when
\* it carried a lineUserId, the Student create-or-update and the Solution's
\* studentId; a create request answered 500 leaves no Solution of that request
\* in the store.
C14_NoPartialSuccess ==
  [][(resp'.op = "create" /\ now' = now) =>
       /\ resp'.status = 200 =>
            \E doc \in solutions' :
              /\ doc.id = resp'.id
              /\ doc \notin solutions
              /\ resp'.user # "" =>
                   \E a \in students' :
                     /\ a.lineUserId = resp'.user
                     /\ a \notin students
                     /\ doc.studentId = a.id
       /\ resp'.status = 500 => solutions' = solutions]_vars

\* C15: startServer always reaches app.listen; a failed store connection and
\* a failed bootstrap teacher creation are logged, write no Teacher, and
\* startServer goes on to the next step.
C15_StartupReachesListening ==
  /\ <>(boot.pc = "listening")
  /\ [][\A config \in ConnectionConfigs :
          connectDB(config, FALSE) =>
            boot'.pc = "createDefaultTeacher" /\ "connectDB" \in boot'.logged]_vars
  /\ [][\A fault \in 0..2 :
          (BootstrapTeacher("T1", "t1", fault) /\ (fault # 0 \/ ~boot.connected)) =>
            /\ boot'.pc = "listen"
            /\ "createDefaultTeacher" \in boot'.logged
            /\ teachers' = teachers]_vars
  /\ [](boot.pc = "listening" => [](boot.pc = "listening"))

C15_Witness ==
  /\ boot.pc = "listening"
  /\ ~boot.connected
  /\ boot.logged = {"connectDB", "createDefaultTeacher"}
  /\ resp.op = "dashboardLink"
  /\ resp.status = 500

\* the text after the first occurrence of a label up to the end of its line,
\* trimmed; <<>> when the label does not occur
HasLabel(s, label) == \E i \in 1..Len(s) : s[i] = label

RestOfLine(s, label) ==
  IF ~HasLabel(s, label) THEN <<>>
  ELSE LET i == CHOOSE j \in 1..Len(s) : s[j] = label /\ \A k \in 1..(j - 1) : s[k] # label
           ends == {j \in (i + 1)..(Len(s) + 1) : j = Len(s) + 1 \/ s[j] = "nl"}
           e == CHOOSE j \in ends : \A k \in ends : j <= k
       IN  Trim(SubSeq(s, i + 1, e - 1))

\* the answer given to the extraction, and the triple it returned
Extracted == CHOOSE out \in resp.body : TRUE
ExtractedFrom == req.body.answer.s

\* C17: when the answer has a student-name, a subject and a topic label whose
\* trimmed rest-of-line values are non-empty and within the thresholds (name
\* at most 30, topic at most 50 characters), the extraction returns exactly
\* those three values, whatever keywords the text holds; without a subject
\* label the subject is the default, without a name label the name is the
\* anonymous sentinel.
C17_LabelledValuesReturned ==
  resp.op = "extract" =>
    LET s == ExtractedFrom
        name == RestOfLine(s, "LblStudent")
        subject == RestOfLine(s, "LblSubject")
        topic == RestOfLine(s, "LblTopic")
    IN  /\ (/\ name # <<>> /\ StrLen(name) <= 30
            /\ subject # <<>>
            /\ topic # <<>> /\ StrLen(topic) <= 50)
           => Extracted = [studentName |-> name, subject |-> subject, topic |-> topic]
        /\ ~HasLabel(s, "LblSubject") => Extracted.subject = <<"wMath">>
        /\ ~HasLabel(s, "LblStudent") => Extracted.studentName = <<"wAnonymous">>

\* the keyword groups in their order, each with the topic it stands for
KeywordGroups ==
  <<[topic |-> <<"kwTriangle">>,
     words |-> {<<"kwTriangle">>, <<"kwPythagoras">>, <<"kwRightAngle">>}],
    [topic |-> <<"kwLinear">>,
     words |-> {<<"kwLinear">>, <<"kwIntercept">>, <<"m", "x">>}],
    [topic |-> <<"kwQuadratic">>,
     words |-> {<<"kwQuadratic">>, <<"kwParabola">>, <<"kwVertex">>}],
    [topic |-> <<"kwCoord", "plane">>,
     words |-> {<<"kwCoord">>, <<"kwTranslate">>, <<"kwFigure">>}],
    [topic |-> <<"kwProb", "kwStat">>,
     words |-> {<<"kwProb">>, <<"kwStat">>}]>>

Occurs(s, w) == \E i \in 1..Len(s) : i + Len(w) - 1 <= Len(s) /\ SubSeq(s, i, i + Len(w) - 1) = w

\* the topic of the first group with a keyword in the text, else the unknown sentinel
FirstGroupTopic(s) ==
  LET hits == {g \in 1..Len(KeywordGroups) : \E w \in KeywordGroups[g].words : Occurs(s, w)}
  IN  IF hits = {} THEN <<"wUnknown">>
      ELSE KeywordGroups[CHOOSE g \in hits : \A h \in hits : g <= h].topic

\* C18: a labelled topic value of more than 50 characters after trimming is
\* discarded and the topic is decided by the keyword fallback (the unknown
\* sentinel when no keyword occurs); a labelled name of more than 30 characters
\* after trimming becomes the anonymous sentinel; a topic value of exactly 50
\* and a name of exactly 30 characters are kept.
C18_OverlongValuesDiscarded ==
  resp.op = "extract" =>
    LET s == ExtractedFrom
        name == RestOfLine(s, "LblStudent")
        topic == RestOfLine(s, "LblTopic")
    IN  /\ StrLen(topic) > 50 => Extracted.topic = FirstGroupTopic(s)
        /\ StrLen(name) > 30 => Extracted.studentName = <<"wAnonymous">>
        /\ StrLen(topic) = 50 => Extracted.topic = topic
        /\ StrLen(name) = 30 => Extracted.studentName = name

C18_Witness ==
  /\ resp.op = "extract"
  /\ StrLen(RestOfLine(ExtractedFrom, "LblTopic")) = 51
  /\ StrLen(RestOfLine(ExtractedFrom, "LblStudent")) = 31
  /\ Extracted.studentName = <<"wAnonymous">>
  /\ Extracted.topic = <<"kwCoord", "plane">>

\* C19: when the answer has no topic label, or its labelled topic value is
\* discarded as longer than 50 characters, the topic is that of the first of
\* the groups (triangle, linear function, quadratic function, coordinate plane,
\* probability and statistics) with a keyword anywhere in the text, and the
\* unknown sentinel when no group has one.
C19_KeywordFallbackOrder ==
  resp.op = "extract" =>
    LET s == ExtractedFrom
    IN  (~HasLabel(s, "LblTopic") \/ StrLen(RestOfLine(s, "LblTopic")) > 50)
          => Extracted.topic = FirstGroupTopic(s)

C19_Witness ==
  /\ resp.op = "extract"
  /\ ~HasLabel(ExtractedFrom, "LblTopic")
  /\ Occurs(ExtractedFrom, <<"kwStat">>)
  /\ \E i, j \in 1..Len(ExtractedFrom) :
       i < j /\ ExtractedFrom[i] = "kwVertex" /\ ExtractedFrom[j] = "kwIntercept"
  /\ Extracted.topic = <<"kwLinear">>

\* the solution records of a search response, over all its student groups
RecordIds(json) ==
  UNION {{json.students[i].questions[j].id : j \in 1..Len(json.students[i].questions)} :
         i \in 1..Len(json.students)}

RECURSIVE RecordCount(_)
RecordCount(groups) ==
  IF groups = <<>> THEN 0
  ELSE Len(Head(groups).questions) + RecordCount(Tail(groups))

\* the records at positions (p-1)*L+1 .. p*L of an ordering
PagePositions(q, p, L) == {q[k].id : k \in {i \in 1..Len(q) : (p - 1) * L + 1 <= i /\ i <= p * L}}

\* C20: for every page p and limit L the student search answers 200 for, the
\* response holds at most L solution records over all student groups, they are
\* the records at positions (p-1)*L+1 .. p*L of the filtered set in descending
\* createdAt order, and the page count is ceil(total/L), total being the size
\* of the filtered set.
C20_Pagination ==
  [][(resp'.op = "studentSearch" /\ resp'.status = 200) =>
       \A json \in resp'.body :
         LET p == json.pagination.page
             L == json.pagination.limit
             matching == SearchQuery(req'.studentName, req'.dateRange)
         IN  /\ p = req'.page /\ L = req'.limit
             /\ RecordCount(json.students) <= L
             /\ RecordCount(json.students) = Cardinality(RecordIds(json))
             /\ \E q \in SortedByCreatedAt(matching) : RecordIds(json) = PagePositions(q, p, L)
             /\ json.pagination.total = Cardinality(matching)
             /\ json.pagination.pages * L >= json.pagination.total
             /\ (json.pagination.pages - 1) * L < json.pagination.total]_vars

\* C21: two sweep runs that overlap, in any interleaving, delete nothing that
\* is not expired and alter nothing; a run the store does not reject ends
\* successfully, whatever the other run deleted meanwhile, and when it ends no
\* Solution that was expired at its start is left, as after a single run.
C21_OverlappingSweeps ==
  [][/\ \A s \in solutions : s.expiresAt >= now => s \in solutions'
     /\ \A s \in solutions' : s \in solutions \/ s.createdAt = now
     /\ \A c \in Slots :
          (calls[c].op = "sweep" /\ calls'[c] = Idle /\ calls[c].fault = 0) =>
            /\ resp'.op = "sweep" /\ resp'.status = 200
            /\ resp'.deleted = calls[c].deletedCount
            /\ \A s \in solutions' : s.expiresAt >= calls[c].cutoff]_vars

C21_Witness ==
  /\ resp.op = "sweep" /\ resp.status = 200 /\ resp.deleted = 1
  /\ \E c \in Slots : calls[c].op = "sweep" /\ calls[c].deletedCount = 1
  /\ solutions = {}

\* the Student of a lineUserId and the Solutions linked to it
StudentOf(lineUserId) == {st \in students : st.lineUserId = lineUserId}
LinkedTo(st) == {s \in solutions : s.studentId = st.id}

\* C22: overlapping submissions of one lineUserId can lose an increment.  Each
\* student.save() stores the totalQuestions computed from the document the
\* call read (1 for a call that read none), whatever was stored since, and adds
\* no subject or topic when an insert is refused; so two calls that read the
\* same state and both answer success raise totalQuestions by 1 only.
C22_LostIncrement ==
  [][\A c \in Slots :
       (calls[c].op = "create" /\ calls[c].pc = "save" /\ calls'[c].pc = "findAgain") =>
         /\ \A st \in students' \ students :
              /\ st.lineUserId = calls[c].lineUserId
              /\ st.totalQuestions =
                   IF calls[c].student = {} THEN 1
                   ELSE (CHOOSE r \in calls[c].student : TRUE).totalQuestions + 1
         /\ (calls[c].student = {} /\ StudentOf(calls[c].lineUserId) # {}) =>
              students' = students]_vars

\* both calls answered success and linked their Solutions, the count grew by 1
C22_Witness ==
  /\ calls = NoCalls
  /\ resp.op = "create" /\ resp.status = 200
  /\ \E st \in StudentOf("L1") :
       /\ Cardinality(LinkedTo(st)) = 2
       /\ st.totalQuestions = (IF st.id = KnownStudent.id THEN 1 ELSE 0) + 1

\* C23: under any interleaving of submissions and find-or-create requests, no
\* two Student records share a lineUserId and no two Teacher records do.
C23_UniqueExternalIds ==
  /\ \A a, b \in students : a.lineUserId = b.lineUserId => a = b
  /\ \A a, b \in teachers : a.lineUserId = b.lineUserId => a = b

\* a submission lost the race to insert the Student, after a find-or-create
\* request lost the race to insert the Teacher
C23_Witness ==
  /\ \E c \in Slots :
       /\ calls[c].op = "create" /\ calls[c].pc = "findAgain" /\ calls[c].student = {}
       /\ \E st \in StudentOf(calls[c].lineUserId) : st.id # calls[c].suuid
  /\ resp.op = "dashboardLink" /\ resp.status = 500 /\ resp.id = "T3"
  /\ \E t \in teachers : t.lineUserId = "T3"

\* C24: when a submission carrying a lineUserId is answered success, its
\* stored Solution holds the id of the Student of that lineUserId, also with
\* an overlapping submission of the same lineUserId; and a Solution never
\* holds a studentId that matches no Student.
C24_StudentLinked ==
  [][/\ \A c \in Slots :
          (calls[c].op = "create" /\ calls'[c] = Idle /\ resp'.status = 200) =>
            \E s \in solutions', st \in students' :
              /\ s.id = resp'.id
              /\ st.lineUserId = calls[c].lineUserId
              /\ s.studentId = st.id
     /\ \A s \in solutions' :
          s.studentId = NoStudent \/ \E st \in students' : st.id = s.studentId]_vars

\* C28: a request to a find-or-create route by an identifier that has no
\* Teacher record when the request looks it up is answered success, also when
\* two such requests for the same identifier overlap.
C28_FirstRequestSucceeds ==
  [][\A c \in Slots :
       (calls[c].op = "provision" /\ calls'[c] = Idle /\ ~calls[c].known) =>
         resp'.status = 200]_vars

\* the same stored record in two states
SameRecord(a, b) == a.id = b.id /\ a.createdAt = b.createdAt

\* C26: while a Solution exists its stored viewCount never decreases, under
\* any interleaving of overlapping page views of its id.
C26_ViewCountNeverDecreases ==
  [][\A a \in solutions, b \in solutions' :
       SameRecord(a, b) => b.viewCount >= a.viewCount]_vars

\* C27: a Solution the sweep deleted is never in the store again: every record
\* of the next state was there before or is the one a submission just created,
\* also when the viewCount write of a page view comes after the delete.
C27_DeletedStaysDeleted ==
  [][\A b \in solutions' :
       \/ \E a \in solutions : SameRecord(a, b)
       \/ /\ resp'.op = "create" /\ resp'.id = b.id
          /\ b.createdAt = now /\ b.viewCount = 0
          /\ \A c \in Slots : calls'[c] = calls[c]]_vars

\* a page view read the record, the sweep deleted it, then the view's save ran
C27_Witness ==
  /\ resp.op = "display" /\ resp.id # ""
  /\ FindSolution(resp.id) = {}

\* C25: the analytics routes (dashboard by date, student by date, topic
\* analysis, student search) leave every Solution, viewCount included, every
\* Student and every Teacher unchanged in every outcome, and a search answers
\* from the records stored when it is asked: its records are stored ones and
\* its total is the number of stored records the query matches.
C25_AnalyticsReadOnly ==
  [][resp'.op \in {"apiDashboard", "apiStudent", "apiTopicAnalysis", "studentSearch"} =>
       /\ solutions' = solutions /\ students' = students /\ teachers' = teachers
       /\ (resp'.op = "studentSearch" /\ resp'.status = 200) =>
            \A json \in resp'.body :
              /\ RecordIds(json) \subseteq {s.id : s \in solutions}
              /\ json.pagination.total =
                   Cardinality(SearchQuery(req'.studentName, req'.dateRange))]_vars

C25_Witness ==
  /\ resp.op = "apiTopicAnalysis" /\ resp.status = 200
  /\ Cardinality(solutions) = 3
  /\ students # {}

\* C29: an identifier whose Teacher record has isActive = false gets no
\* success response from any teacher route (behind validateTeacherAuth, with
\* its own lookup, or find-or-create), and no route adds a Teacher for it or
\* changes its record.
C29_DeactivatedNeverServed ==
  [][(/\ resp'.op \in GatedRoutes \cup VerifyRoutes \cup ProvisionRoutes
      /\ \E t \in teachers : t.lineUserId = resp'.id /\ ~t.isActive) =>
       /\ resp'.status # 200
       /\ resp'.body = {}
       /\ teachers' = teachers]_vars

C29_Witness ==
  /\ resp.op = "studentSearchPage" /\ resp.id = "T2" /\ resp.status = 500
  /\ Deactivated \in teachers
  /\ \A t \in teachers : t.lineUserId = "T2" => t = Deactivated

\* C30: for every answer text the extraction returns a non-empty studentName,
\* a non-empty subject and a non-empty topic, the three fields the Solution
\* schema requires.
C30_ExtractedFieldsNonEmpty ==
  resp.op = "extract" =>
    \A info \in resp.body :
      /\ info.studentName # <<>>
      /\ info.subject # <<>>
      /\ info.topic # <<>>

====
